---- MODULE Spec2Model ----
(***************************************************************************)
(* bevy-inspector-egui, src/world_inspector/plugin.rs:                     *)
(* WorldInspectorPlugin::build (setup) and the exclusive per-frame system  *)
(* world_inspector_ui (the tick), over a small host world.                 *)
(***************************************************************************)
EXTENDS Integers, Sequences, FiniteSets, TLC

\* ------------------------------------------------------------- bounds
MaxEntity == 2      \* entity ids 1..MaxEntity are spawned, in order
MaxBuilds == 2      \* times WorldInspectorPlugin::build is run

\* ------------------------------------------------------ the host world
NoEntity == 0       \* Option<Entity>::None
Entity == 1..MaxEntity
Windows == {"primary", "secondary"}
NoCtx == "none"     \* Option<&CtxRef>::None

ComponentTypes == {"Position", "Marker"}
RegisteredTypes == {"MyComponent"}
\* the host's enumeration order of component types
TypeOrder == <<"Position", "Marker">>
\* storage is a property of the component type, not of the entity
StorageType(c) == IF c = "Marker" THEN "SparseSet" ELSE "Table"
\* the component types owned by entity e
Archetype(e) ==
    IF e = 1 THEN {"Position", "Marker"}
    ELSE IF e = 2 THEN {"Marker"}
    ELSE {"Position"}

Range(s) == {s[i] : i \in 1..Len(s)}

\* WorldInspectorParams::default()
DefaultParams ==
    [enabled |-> TRUE, entity |-> NoEntity, panel |-> FALSE, window |-> "primary"]

\* a component holds one checkbox field; FALSE when spawned (and when not owned)
DefaultVals == [e \in Entity |-> [c \in ComponentTypes |-> FALSE]]

VARIABLES
    params_present,   \* the world holds a WorldInspectorParams resource
    params,           \* its value (DefaultParams while absent)
    registry_present, \* the world holds an InspectableRegistry resource
    registry,         \* the types registered in it
    user_registered,  \* history: the types the user has registered
    egui,             \* the world holds an EguiContext resource
    ctxs,             \* the windows the EguiContext has a context for
    egui_plugins,     \* times EguiPlugin was added to the app
    systems,          \* world_inspector_ui systems registered
    running,          \* App::run() was called: frames are being run
    spawned,          \* entities 1..spawned have been spawned
    live,             \* the entities that exist
    vals,             \* component values: vals[e][c]
    panicked,         \* a tick panicked: the app is gone
    tick              \* the locals of the tick, when the last step was a tick

vars == <<params_present, params, registry_present, registry, user_registered,
          egui, ctxs, egui_plugins, systems, running, spawned, live, vals,
          panicked, tick>>

world_vars == <<params_present, params, registry_present, registry,
                user_registered, egui, ctxs, egui_plugins, systems, running,
                spawned, live, vals, panicked>>

NoTick ==
    [outcome |-> "none", pre |-> DefaultParams, click |-> NoEntity,
     closed |-> FALSE, entity |-> NoEntity, inspected |-> NoEntity,
     label |-> FALSE, sections |-> <<>>, changed |-> FALSE,
     mutated |-> {}, trace |-> <<>>]

Init ==
    /\ params_present = FALSE
    /\ params = DefaultParams
    /\ registry_present = FALSE
    /\ registry = {}
    /\ user_registered = {}
    /\ egui = FALSE
    /\ ctxs = {}
    /\ egui_plugins = 0
    /\ systems = 0
    /\ running = FALSE
    /\ spawned = 0
    /\ live = {}
    /\ vals = DefaultVals
    /\ panicked = FALSE
    /\ tick = NoTick


\* ------------------------------------------------- setup: App::build()

\* mutant: World::insert_resource, which replaces what is there
get_resource_or_insert_with_Replace(present, current, default) == default

\* World::get_resource_or_insert_with, as build and the user's plugin call it
get_resource_or_insert_with(present, current, default) ==
    IF present THEN current ELSE default

\* the user inserts their own WorldInspectorParams before the plugin is built
InsertParams ==
    /\ ~running /\ ~panicked /\ ~params_present
    /\ \E en \in BOOLEAN, pn \in BOOLEAN, w \in Windows :
          params' = [enabled |-> en, entity |-> NoEntity, panel |-> pn, window |-> w]
    /\ params_present' = TRUE
    /\ tick' = NoTick
    /\ UNCHANGED <<registry_present, registry, user_registered, egui, ctxs,
                   egui_plugins, systems, running, spawned, live, vals, panicked>>

\* the user adds EguiPlugin themselves; its build inserts the EguiContext
AddEguiPlugin ==
    /\ ~running /\ ~panicked /\ ~egui
    /\ egui' = TRUE
    /\ egui_plugins' = egui_plugins + 1
    /\ tick' = NoTick
    /\ UNCHANGED <<params_present, params, registry_present, registry,
                   user_registered, ctxs, systems, running, spawned, live, vals,
                   panicked>>

\* MyPlugin::build of the plugin's documentation:
\* get_resource_or_insert_with(InspectableRegistry::default).register::<T>()
Register ==
    /\ ~running /\ ~panicked
    /\ \E t \in RegisteredTypes :
          /\ registry' =
                get_resource_or_insert_with(registry_present, registry, {}) \cup {t}
          /\ user_registered' = user_registered \cup {t}
    /\ registry_present' = TRUE
    /\ tick' = NoTick
    /\ UNCHANGED <<params_present, params, egui, ctxs, egui_plugins, systems,
                   running, spawned, live, vals, panicked>>

\* WorldInspectorPlugin::build
build ==
    /\ ~running /\ ~panicked /\ systems < MaxBuilds
    /\ IF ~egui
          THEN egui' = TRUE /\ egui_plugins' = egui_plugins + 1
          ELSE UNCHANGED <<egui, egui_plugins>>
    /\ params' = get_resource_or_insert_with(params_present, params, DefaultParams)
    /\ params_present' = TRUE
    /\ registry' = get_resource_or_insert_with(registry_present, registry, {})
    /\ registry_present' = TRUE
    /\ systems' = systems + 1
    /\ tick' = NoTick
    /\ UNCHANGED <<user_registered, ctxs, running, spawned, live, vals, panicked>>

\* App::run(): from here on the host runs frames
Run ==
    /\ ~running /\ ~panicked /\ systems >= 1
    /\ running' = TRUE
    /\ tick' = NoTick
    /\ UNCHANGED <<params_present, params, registry_present, registry,
                   user_registered, egui, ctxs, egui_plugins, systems, spawned,
                   live, vals, panicked>>

\* ------------------------------------------- the host, between ticks

Spawn ==
    /\ running /\ ~panicked /\ spawned < MaxEntity
    /\ spawned' = spawned + 1
    /\ live' = live \cup {spawned + 1}
    /\ tick' = NoTick
    /\ UNCHANGED <<params_present, params, registry_present, registry,
                   user_registered, egui, ctxs, egui_plugins, systems, running,
                   vals, panicked>>

\* the host destroys an entity; its id is not reused
Despawn ==
    /\ running /\ ~panicked
    /\ \E e \in live :
          /\ live' = live \ {e}
          /\ vals' = [vals EXCEPT ![e] = DefaultVals[e]]
    /\ tick' = NoTick
    /\ UNCHANGED <<params_present, params, registry_present, registry,
                   user_registered, egui, ctxs, egui_plugins, systems, running,
                   spawned, panicked>>

\* the UI toolkit initialises its context for a window
CtxInit ==
    /\ running /\ ~panicked /\ egui
    /\ \E w \in Windows \ ctxs : ctxs' = ctxs \cup {w}
    /\ tick' = NoTick
    /\ UNCHANGED <<params_present, params, registry_present, registry,
                   user_registered, egui, egui_plugins, systems, running,
                   spawned, live, vals, panicked>>

\* a window is closed: its context is no longer available
WindowClosed ==
    /\ running /\ ~panicked
    /\ \E w \in ctxs : ctxs' = ctxs \ {w}
    /\ tick' = NoTick
    /\ UNCHANGED <<params_present, params, registry_present, registry,
                   user_registered, egui, egui_plugins, systems, running,
                   spawned, live, vals, panicked>>

\* the host switches the inspector on again
SetEnabled ==
    /\ running /\ ~panicked /\ params_present /\ ~params.enabled
    /\ params' = [params EXCEPT !.enabled = TRUE]
    /\ tick' = NoTick
    /\ UNCHANGED <<params_present, registry_present, registry, user_registered,
                   egui, ctxs, egui_plugins, systems, running, spawned, live,
                   vals, panicked>>

\* the host removes the WorldInspectorParams resource
RemoveParams ==
    /\ running /\ ~panicked /\ params_present
    /\ params_present' = FALSE
    /\ params' = DefaultParams
    /\ tick' = NoTick
    /\ UNCHANGED <<registry_present, registry, user_registered, egui, ctxs,
                   egui_plugins, systems, running, spawned, live, vals, panicked>>

\* the host removes the EguiContext resource
RemoveEgui ==
    /\ running /\ ~panicked /\ egui
    /\ egui' = FALSE
    /\ ctxs' = {}
    /\ tick' = NoTick
    /\ UNCHANGED <<params_present, params, registry_present, registry,
                   user_registered, egui_plugins, systems, running, spawned,
                   live, vals, panicked>>

\* ------------------------------------------ the tick: world_inspector_ui

\* EguiContext::try_ctx_for_window
try_ctx_for_window(w) == IF w \in ctxs THEN w ELSE NoCtx

\* World::get_entity: the entity, or None once it was destroyed
get_entity(e) == IF e \in live THEN e ELSE NoEntity

\* Archetype::table_components / sparse_set_components of the entity's archetype
table_components(e) ==
    SelectSeq(TypeOrder, LAMBDA c : c \in Archetype(e) /\ StorageType(c) = "Table")

sparse_set_components(e) ==
    SelectSeq(TypeOrder, LAMBDA c : c \in Archetype(e) /\ StorageType(c) = "SparseSet")

\* WorldUIContext::world_ui: the hierarchy lists the live entities, each
\* clickable to select; click is the entity the user clicks (NoEntity: none)
world_ui(selected, click) == IF click \in live THEN click ELSE selected

\* WorldUIContext::component_kind_ui: one section listing the given components
\* of the entity; the widgets the user edits this frame write the component
\* in place, and the result says whether any of them did
component_kind_ui(components, title, entity, edits, v) ==
    LET hit == Range(components) \cap edits IN
    [changed |-> hit # {},
     vals    |-> [v EXCEPT ![entity] =
                    [c \in ComponentTypes |->
                        IF c \in hit THEN ~v[entity][c]
                        ELSE v[entity][c]]],
     section |-> [title |-> title, components |-> components]]

\* mutant: no get_entity check, the sections are rendered for a destroyed entity
inspector_panel_NoExistenceCheck(entity, edits) ==
    LET t == component_kind_ui(table_components(entity), "Components",
                               entity, edits, vals)
        s == component_kind_ui(sparse_set_components(entity),
                               "Components (Sparse)", entity, edits, t.vals)
    IN [label |-> FALSE,
        sections |-> <<t.section, s.section>>,
        changed |-> t.changed \/ s.changed,
        vals |-> s.vals,
        events |-> <<"get_entity", "section_table", "section_sparse">>]

\* mutant: `changed || ...`, the sparse section is skipped once the table
\* section reported a change
inspector_panel_ShortCircuit(entity, edits) ==
    IF get_entity(entity) = NoEntity
    THEN [label |-> TRUE, sections |-> <<>>, changed |-> FALSE, vals |-> vals,
          events |-> <<"get_entity", "label">>]
    ELSE
      LET t == component_kind_ui(table_components(entity), "Components",
                                 entity, edits, vals)
          s == component_kind_ui(sparse_set_components(entity),
                                 "Components (Sparse)", entity, edits, t.vals)
      IN IF t.changed
         THEN [label |-> FALSE, sections |-> <<t.section>>, changed |-> TRUE,
               vals |-> t.vals, events |-> <<"get_entity", "section_table">>]
         ELSE [label |-> FALSE, sections |-> <<t.section, s.section>>,
               changed |-> s.changed, vals |-> s.vals,
               events |-> <<"get_entity", "section_table", "section_sparse">>]

\* the closure given to SidePanel::left("Inspector"): its value is `changed`
inspector_panel(entity, edits) ==
    IF get_entity(entity) = NoEntity
    THEN [label |-> TRUE, sections |-> <<>>, changed |-> FALSE, vals |-> vals,
          events |-> <<"get_entity", "label">>]
    ELSE
      LET t == component_kind_ui(table_components(entity), "Components",
                                 entity, edits, vals)
          s == component_kind_ui(sparse_set_components(entity),
                                 "Components (Sparse)", entity, edits, t.vals)
      IN [label |-> FALSE,
          sections |-> <<t.section, s.section>>,
          changed |-> (FALSE \/ t.changed) \/ s.changed,
          vals |-> s.vals,
          events |-> <<"get_entity", "section_table", "section_sparse">>]

\* mutant: the side panel takes the close flag too
hierarchy_PanelClosable(p, click, close) ==
    [entity  |-> IF click \in live THEN click ELSE p.entity,
     is_open |-> ~close]

\* the hierarchy surface: a side panel, or a floating window the user may close
hierarchy(p, click, close) ==
    [entity  |-> world_ui(p.entity, click),
     is_open |-> IF p.panel THEN TRUE ELSE ~close]

\* mutant: a selection that no longer exists is cleared on write-back
write_params_ClearStale(p, is_open, entity) ==
    [p EXCEPT !.enabled = is_open,
              !.entity = IF entity \in live THEN entity ELSE NoEntity]

\* the write-back that ends a tick
write_params(p, is_open, entity) ==
    [p EXCEPT !.enabled = is_open, !.entity = entity]

\* the references live at each event of a tick
Views(ev) ==
    CASE ev = "read_params"  -> {"params"}
      [] ev = "read_egui"    -> {"params", "egui_context"}
      [] ev = "try_ctx"      -> {"params", "egui_context", "ctx"}
      [] ev = "world_mut"    -> {"params", "egui_context", "ctx", "world_mut"}
      [] ev = "ui_context"   -> {"params", "egui_context", "ctx", "world_mut"}
      [] ev = "hierarchy"    -> {"params", "ctx", "world_mut"}
      [] ev = "get_entity"   -> {"params", "ctx", "world_mut"}
      [] ev = "label"        -> {"params", "ctx", "world_mut"}
      [] ev = "section_table"  -> {"params", "ctx", "world_mut"}
      [] ev = "section_sparse" -> {"params", "ctx", "world_mut"}
      [] ev = "write_params" -> {"world_mut"}

SharedViews == {"params", "egui_context", "ctx"}

\* mutant: the inspector shows the selection the tick started with, so a click
\* in the hierarchy is inspected one tick late
draw_InspectsStartSelection(click, close, edits) ==
    LET h == hierarchy(params, click, close)
        shown == params.panel /\ params.entity # NoEntity
        i == IF shown THEN inspector_panel(params.entity, edits)
             ELSE [label |-> FALSE, sections |-> <<>>, changed |-> FALSE,
                   vals |-> vals, events |-> <<>>]
    IN [outcome |-> "done",
        params |-> write_params(params, h.is_open, h.entity),
        vals |-> i.vals,
        is_open |-> h.is_open,
        entity |-> h.entity,
        inspected |-> IF shown THEN params.entity ELSE NoEntity,
        label |-> i.label,
        sections |-> i.sections,
        changed |-> i.changed,
        trace |-> <<"read_params", "read_egui", "try_ctx", "world_mut",
                    "ui_context", "hierarchy">> \o i.events \o <<"write_params">>]

\* the part of a tick that draws. From the cast `&mut *world_ptr` on, the
\* mutable world aliases the shared references params, egui_context and ctx
\* (see Views); nothing writes WorldInspectorParams before the write-back, so
\* a read through `params` yields the value read at the start whether the
\* build caches it or reloads it. egui_context.ctx() is the primary window's
\* context, which exists whenever the EguiContext resource does.
draw(click, close, edits) ==
    LET h == hierarchy(params, click, close)
        shown == params.panel /\ h.entity # NoEntity
        i == IF shown THEN inspector_panel(h.entity, edits)
             ELSE [label |-> FALSE, sections |-> <<>>, changed |-> FALSE,
                   vals |-> vals, events |-> <<>>]
    IN [outcome |-> "done",
        params |-> write_params(params, h.is_open, h.entity),
        vals |-> i.vals,
        is_open |-> h.is_open,
        entity |-> h.entity,
        inspected |-> IF shown THEN h.entity ELSE NoEntity,
        label |-> i.label,
        sections |-> i.sections,
        changed |-> i.changed,
        trace |-> <<"read_params", "read_egui", "try_ctx", "world_mut",
                    "ui_context", "hierarchy">> \o i.events \o <<"write_params">>]

\* a tick that returns or panics before it draws
early(outcome, trace) ==
    [outcome |-> outcome, params |-> params, vals |-> vals, is_open |-> TRUE,
     entity |-> NoEntity, inspected |-> NoEntity, label |-> FALSE,
     sections |-> <<>>, changed |-> FALSE, trace |-> trace]

\* mutant: the tick draws without looking for the window's context
world_inspector_ui_NoCtxCheck(click, close, edits) ==
    IF ~params_present THEN early("panic", <<>>)
    ELSE IF ~params.enabled THEN early("disabled", <<"read_params">>)
    ELSE IF ~egui THEN early("panic", <<"read_params">>)
    ELSE draw(click, close, edits)

\* the exclusive system run once per frame
world_inspector_ui(click, close, edits) ==
    IF ~params_present THEN early("panic", <<>>)
    ELSE IF ~params.enabled THEN early("disabled", <<"read_params">>)
    ELSE IF ~egui THEN early("panic", <<"read_params">>)
    ELSE IF try_ctx_for_window(params.window) = NoCtx
         THEN early("no_ctx", <<"read_params", "read_egui", "try_ctx">>)
    ELSE draw(click, close, edits)

Tick ==
    /\ running /\ ~panicked /\ systems >= 1
    /\ \E click \in live \cup {NoEntity}, close \in BOOLEAN,
          edits \in SUBSET ComponentTypes :
          \E r \in {world_inspector_ui(click, close, edits)} :
          /\ params' = r.params
          /\ vals' = r.vals
          /\ panicked' = (r.outcome = "panic")
          /\ tick' = [outcome |-> r.outcome, pre |-> params,
                      click |-> IF r.outcome = "done" THEN click ELSE NoEntity,
                      closed |-> r.outcome = "done" /\ close,
                      entity |-> r.entity, inspected |-> r.inspected,
                      label |-> r.label, sections |-> r.sections,
                      changed |-> r.changed,
                      mutated |-> {x \in Entity \X ComponentTypes :
                                     r.vals[x[1]][x[2]] # vals[x[1]][x[2]]},
                      trace |-> r.trace]
    /\ UNCHANGED <<params_present, registry_present, registry, user_registered,
                   egui, ctxs, egui_plugins, systems, running, spawned, live>>

Next ==
    \/ InsertParams
    \/ AddEguiPlugin
    \/ Register
    \/ build
    \/ Run
    \/ Spawn
    \/ Despawn
    \/ CtxInit
    \/ WindowClosed
    \/ SetEnabled
    \/ RemoveParams
    \/ RemoveEgui
    \/ Tick

Spec == Init /\ [][Next]_vars

\* ------------------------------------------------------------ claims

Ran == tick.outcome # "none"
Done == tick.outcome = "done"
Events == Range(tick.trace)
DrawEvents == {"hierarchy", "get_entity", "label", "section_table", "section_sparse"}
\* the position of an event in the trace of the tick (0: absent)
Pos(ev) ==
    IF ev \in Events
    THEN CHOOSE i \in 1..Len(tick.trace) : tick.trace[i] = ev
    ELSE 0
Count(ev) == Cardinality({i \in 1..Len(tick.trace) : tick.trace[i] = ev})
\* the tick found the UI context of its target window
CtxAvailable == egui /\ tick.pre.window \in ctxs
\* the tick started with a selection that no longer exists, and the user
\* selected nothing else in the hierarchy: the entity inspected is that one
StaleSelection ==
    /\ tick.pre.entity # NoEntity
    /\ tick.pre.entity \notin live
    /\ tick.click = NoEntity

C3_TickNeverPanics == ~panicked

\* C4: a tick in which the user selects nothing in the hierarchy leaves
\* params.entity as it was at the start of the tick, also when that entity was
\* destroyed.
C4_StaleSelectionKept ==
    (Ran /\ tick.click = NoEntity)
    => params.entity = tick.pre.entity

C4_Witness ==
    /\ Done /\ StaleSelection
    /\ params.entity = tick.pre.entity

C6_PartitionComplete ==
    (Done /\ tick.pre.panel /\ tick.entity \in live)
    => /\ tick.inspected = tick.entity
       /\ Len(tick.sections) = 2
       /\ tick.sections[1].title = "Components"
       /\ tick.sections[2].title = "Components (Sparse)"
       /\ 0 < Pos("section_table") /\ Pos("section_table") < Pos("section_sparse")
       /\ LET tab == tick.sections[1].components
              spa == tick.sections[2].components
              Occ(q, c) == Cardinality({i \in 1..Len(q) : q[i] = c})
          IN /\ \A c \in Archetype(tick.entity) : Occ(tab, c) + Occ(spa, c) = 1
             /\ Range(tab) \cup Range(spa) \subseteq Archetype(tick.entity)
             /\ \A c \in Range(tab) : StorageType(c) = "Table"
             /\ \A c \in Range(spa) : StorageType(c) = "SparseSet"

\* an edit in the table section, and the sparse section still rendered
C6_Witness ==
    /\ Done /\ tick.inspected \in live
    /\ \E c \in ComponentTypes :
          StorageType(c) = "Table" /\ <<tick.inspected, c>> \in tick.mutated
    /\ Len(tick.sections) = 2
    /\ tick.sections[2].components # <<>>

\* C7: building the plugin installs the default WorldInspectorParams and the
\* default empty registry only where absent and never replaces one, so every
\* type the user registered stays registered; and it adds the UI toolkit
\* plugin exactly when no EguiContext resource exists.
C7_SetupInstallsOnlyIfAbsent ==
    [][/\ registry_present' => user_registered' \subseteq registry'
       /\ (systems' = systems + 1)
          => /\ params_present' /\ registry_present'
             /\ params' = IF params_present THEN params ELSE DefaultParams
             /\ registry' = IF registry_present THEN registry ELSE {}
             /\ (egui_plugins' # egui_plugins) <=> ~egui
             /\ egui']_vars

\* built twice, around a user's configuration and registration
C7_Witness ==
    /\ systems = 2
    /\ user_registered # {}
    /\ registry = user_registered
    /\ params # DefaultParams
    /\ egui_plugins = 1

\* C8: in a tick that draws, the parameters are read first, the hierarchy is
\* drawn before the selected entity is looked up and its components rendered,
\* the entity inspected is the selection after the hierarchy draw (the entity
\* clicked in this tick, if any), and the parameters are written once, last.
C8_TickOrdering ==
    Done
    => /\ tick.trace[1] = "read_params"
       /\ Count("write_params") = 1
       /\ tick.trace[Len(tick.trace)] = "write_params"
       /\ Count("hierarchy") = 1
       /\ \A ev \in Events \cap {"get_entity", "label", "section_table", "section_sparse"} :
             Pos("hierarchy") < Pos(ev) /\ Pos(ev) < Pos("write_params")
       /\ \A ev \in Events \cap {"label", "section_table", "section_sparse"} :
             Pos("get_entity") < Pos(ev)
       /\ tick.entity = (IF tick.click # NoEntity THEN tick.click ELSE tick.pre.entity)
       /\ params.entity = tick.entity
       /\ (tick.pre.panel /\ tick.entity # NoEntity) => tick.inspected = tick.entity
       /\ (tick.inspected # NoEntity) <=> ("get_entity" \in Events)

\* an entity clicked in the hierarchy is inspected in the same tick
C8_Witness ==
    /\ Done
    /\ tick.click # NoEntity
    /\ tick.click # tick.pre.entity
    /\ tick.pre.entity # NoEntity
    /\ tick.inspected = tick.click
    /\ Len(tick.sections) = 2

\* C9: at no event of a tick is the mutable view of the world live together
\* with a shared view of data the world owns.
C9_NoAliasedViews ==
    \A i \in 1..Len(tick.trace) :
        ~ /\ "world_mut" \in Views(tick.trace[i])
          /\ Views(tick.trace[i]) \cap SharedViews # {}

\* C10: a tick that finds the inspector disabled draws nothing and leaves the
\* parameters unchanged, no tick enables it, and a completed tick disables it
\* exactly when the display is the floating window and the user closed it.
C10_EnabledLifecycle ==
    /\ (Ran /\ params_present /\ ~tick.pre.enabled)
       => /\ tick.outcome = "disabled"
          /\ params = tick.pre
          /\ ~params.enabled
          /\ Events \cap (DrawEvents \cup {"write_params"}) = {}
          /\ tick.mutated = {}
    /\ Done => /\ tick.pre.enabled
               /\ ~params.enabled <=> (~tick.pre.panel /\ tick.closed)
               /\ tick.pre.panel => params.enabled

\* the user closes the floating window: the inspector is disabled
C10_Witness ==
    /\ Done /\ ~tick.pre.panel /\ tick.closed /\ ~params.enabled

\* C2: the host can tell from the world a tick leaves behind whether a widget
\* was edited in it: two completed ticks that leave the same world behind
\* reported the same `changed`.
C2_ChangedObservable ==
    [][(Done /\ tick'.outcome = "done" /\ world_vars' = world_vars)
       => tick'.changed = tick.changed]_vars

====
